---- MODULE Spec2Model ----
(***************************************************************************)
(* Model of src/single_user_main.py: the AppState singleton, its           *)
(* initialize_qa_system method and the /respond handler handle_question.   *)
(* Python threads interleave between statements; every statement that      *)
(* reads or writes a field of the shared AppState instance is one step.    *)
(***************************************************************************)
EXTENDS Integers, Sequences, FiniteSets, TLC

\* ---------------------------------------------------------------- bounds
NumThreads == 2
MaxCalls == 2
MaxPieces == 5
MaxNews == 2

Threads == 1..NumThreads

\* ------------------------------------------------------- program values
\* state.qa_system is None (backend handles are numbered from 1)
None == 0
\* os.getenv gives None for a variable that is not set
Unset == "unset"
NoExc == "NoExc"
KeyMissingMsg == "OPENAI_API_KEY not found in environment variables"
MakedirsMsg == "makedirs failed"
MetadataMsg == "object has no len()"
\* str(e) of an exception raised by the backend; str(Exception()) is ""
BackendMsgs == {"", "backend error"}
\* os.getenv("OPENAI_API_KEY"): unset, empty, or a key
EnvKeys == {Unset, "", "sk-key"}
\* len(qa_system.document_metadata)
DocCounts == {0, 2}
Questions == {"", "q"}
ResponseKeys == {"answer", "confidence", "is_inference", "sources"}
\* the backend's ask_question result: the set of keys the dict carries
Responses == {ResponseKeys} \cup {ResponseKeys \ {k} : k \in ResponseKeys}

VARIABLES
    qa_system,        \* state.qa_system: None or the id of a constructed backend
    system_status,    \* state.system_status
    error_message,    \* state.error_message
    document_count,   \* state.document_count
    _initialized,     \* state._initialized
    openai_api_key,   \* the process environment's OPENAI_API_KEY
    constructCalls,   \* number of EnhancedDocumentQASystem(...) invocations
    calls,            \* number of calls started
    pc,               \* each thread's position
    exc,              \* initialize_qa_system: the caught exception's str(e)
    path,             \* initialize_qa_system: how the call ended
    entry,            \* initialize_qa_system: the AppState fields at call entry
    question,         \* handle_question: its argument
    seen,             \* handle_question: what the readiness check read
    payload,          \* handle_question: the error text being formatted
    response,         \* handle_question: the backend's response
    asked,            \* handle_question: arguments passed to ask_question
    result,           \* handle_question: the returned value
    _instance,        \* AppState._instance: None or the id of the created object
    _lock,            \* AppState._lock: 0 when free, else the thread holding it
    created,          \* number of super().__new__(cls) calls
    news,             \* number of AppState() calls started
    got,              \* AppState(): the instance each thread was last given
    pieces,           \* extract_sections: response['answer'] as the pieces it is made of
    extracted         \* extract_sections: the response it was applied to and its outcome

appState == <<qa_system, system_status, error_message, document_count, _initialized>>
initLocals == <<exc, path, entry>>
handleLocals == <<question, seen, payload, response, asked, result>>
singletonVars == <<_instance, _lock, created, news, got>>
extractVars == <<pieces, extracted>>
\* what neither initialize_qa_system nor handle_question touches
rest == <<openai_api_key, singletonVars, extractVars>>
vars == <<appState, rest, constructCalls, calls, pc, initLocals, handleLocals>>

InitLabels == {"init_check", "init_env", "init_construct", "init_ready",
               "init_count", "init_flag", "except_message", "except_status",
               "except_flag", "init_done"}
TryLabels == {"init_env", "init_construct", "init_ready", "init_count", "init_flag"}
HandleLabels == {"handle_check_qa", "handle_check_status", "handle_fmt_status",
                 "handle_fmt_error", "handle_ask", "handle_render", "handle_done"}

NoEntry == <<>>
NoResult == [kind |-> "none", error |-> <<>>]
ErrorPayload(parts) == [kind |-> "error", error |-> parts]
Rendered == [kind |-> "Main", error |-> <<>>]

\* extract_sections has not been applied
NotRun == [ran |-> FALSE]

Snapshot == <<qa_system, system_status, error_message, document_count,
              _initialized, constructCalls>>

\* no initialize_qa_system call is in progress
NoInitInFlight == \A t \in Threads : pc[t] \notin InitLabels

\* the state once line 83, state = AppState(), has run: every thread reaches the
\* one instance through the module global
Loaded ==
    /\ _instance = 1
    /\ _lock = 0
    /\ created = 1
    /\ news = 0
    /\ got = [t \in Threads |-> 1]
    /\ pieces = <<>>
    /\ extracted = NotRun

\* AppState.__new__ (first construction) followed by module load
Init ==
    /\ Loaded
    /\ qa_system = None
    /\ system_status = "initializing"
    /\ error_message = ""
    /\ document_count = 0
    /\ _initialized = FALSE
    /\ openai_api_key \in EnvKeys
    /\ constructCalls = 0
    /\ calls = 0
    /\ pc = [t \in Threads |-> "idle"]
    /\ exc = [t \in Threads |-> NoExc]
    /\ path = [t \in Threads |-> "none"]
    /\ entry = [t \in Threads |-> NoEntry]
    /\ question = [t \in Threads |-> ""]
    /\ seen = [t \in Threads |-> "none"]
    /\ payload = [t \in Threads |-> <<>>]
    /\ response = [t \in Threads |-> {}]
    /\ asked = [t \in Threads |-> <<>>]
    /\ result = [t \in Threads |-> NoResult]

\* ------------------------------------------- AppState.initialize_qa_system

\* a caller enters initialize_qa_system
StartInit(t) ==
    /\ pc[t] = "idle"
    /\ calls < MaxCalls
    /\ calls' = calls + 1
    /\ pc' = [pc EXCEPT ![t] = "init_check"]
    /\ entry' = [entry EXCEPT ![t] = Snapshot]
    /\ UNCHANGED <<appState, rest, constructCalls, exc, path, handleLocals>>

\* the same, for callers that call one after the other
StartInitSeq(t) ==
    /\ NoInitInFlight
    /\ StartInit(t)

\* InitCheck without the early return of line 46-48
InitCheck_NoSkip(t) ==
    /\ pc[t] = "init_check"
    /\ pc' = [pc EXCEPT ![t] = "init_env"]
    /\ UNCHANGED <<appState, rest, constructCalls, calls, initLocals, handleLocals>>

\* line 46-48: if self._initialized: return
InitCheck(t) ==
    /\ pc[t] = "init_check"
    /\ IF _initialized
         THEN /\ pc' = [pc EXCEPT ![t] = "init_done"]
              /\ path' = [path EXCEPT ![t] = "skip"]
         ELSE /\ pc' = [pc EXCEPT ![t] = "init_env"]
              /\ path' = path
    /\ UNCHANGED <<appState, rest, constructCalls, calls, exc, entry, handleLocals>>

\* InitEnv without the "if not openai_api_key: raise" of line 55-56
InitEnv_NoKeyCheck(t) ==
    /\ pc[t] = "init_env"
    /\ \/ /\ exc' = [exc EXCEPT ![t] = MakedirsMsg]
          /\ pc' = [pc EXCEPT ![t] = "except_message"]
       \/ /\ exc' = exc
          /\ pc' = [pc EXCEPT ![t] = "init_construct"]
    /\ UNCHANGED <<appState, rest, constructCalls, calls, path, entry, handleLocals>>

\* line 54-60: the credential lookup and os.makedirs
InitEnv(t) ==
    /\ pc[t] = "init_env"
    /\ IF openai_api_key \in {Unset, ""}
         THEN /\ exc' = [exc EXCEPT ![t] = KeyMissingMsg]
              /\ pc' = [pc EXCEPT ![t] = "except_message"]
         ELSE \/ /\ exc' = [exc EXCEPT ![t] = MakedirsMsg]
                 /\ pc' = [pc EXCEPT ![t] = "except_message"]
              \/ /\ exc' = exc
                 /\ pc' = [pc EXCEPT ![t] = "init_construct"]
    /\ UNCHANGED <<appState, rest, constructCalls, calls, path, entry, handleLocals>>

\* line 63-68: self.qa_system = EnhancedDocumentQASystem(...)
InitConstruct(t) ==
    /\ pc[t] = "init_construct"
    /\ constructCalls' = constructCalls + 1
    /\ \/ \E m \in BackendMsgs :
            /\ exc' = [exc EXCEPT ![t] = m]
            /\ pc' = [pc EXCEPT ![t] = "except_message"]
            /\ qa_system' = qa_system
       \/ /\ qa_system' = constructCalls'
          /\ exc' = exc
          /\ pc' = [pc EXCEPT ![t] = "init_ready"]
    /\ UNCHANGED <<system_status, error_message, document_count, _initialized,
                   rest, calls, path, entry, handleLocals>>

\* InitSetReady with the assignment of line 71 left out
InitSetReady_NoWrite(t) ==
    /\ pc[t] = "init_ready"
    /\ pc' = [pc EXCEPT ![t] = "init_count"]
    /\ UNCHANGED <<appState, rest, constructCalls, calls, initLocals, handleLocals>>

\* line 71: self.system_status = "ready"
InitSetReady(t) ==
    /\ pc[t] = "init_ready"
    /\ system_status' = "ready"
    /\ pc' = [pc EXCEPT ![t] = "init_count"]
    /\ UNCHANGED <<qa_system, error_message, document_count, _initialized,
                   rest, constructCalls, calls, initLocals, handleLocals>>

\* line 72: self.document_count = len(self.qa_system.document_metadata)
InitCount(t) ==
    /\ pc[t] = "init_count"
    /\ \/ /\ exc' = [exc EXCEPT ![t] = MetadataMsg]
          /\ pc' = [pc EXCEPT ![t] = "except_message"]
          /\ document_count' = document_count
       \/ \E n \in DocCounts :
            /\ document_count' = n
            /\ exc' = exc
            /\ pc' = [pc EXCEPT ![t] = "init_flag"]
    /\ UNCHANGED <<qa_system, system_status, error_message, _initialized,
                   rest, constructCalls, calls, path, entry, handleLocals>>

\* line 73-74: self._initialized = True, and the call returns
InitSetFlag(t) ==
    /\ pc[t] = "init_flag"
    /\ _initialized' = TRUE
    /\ path' = [path EXCEPT ![t] = "ok"]
    /\ pc' = [pc EXCEPT ![t] = "init_done"]
    /\ UNCHANGED <<qa_system, system_status, error_message, document_count,
                   rest, constructCalls, calls, exc, entry, handleLocals>>

\* line 76-78: except Exception as e: self.error_message = str(e)
ExceptMessage(t) ==
    /\ pc[t] = "except_message"
    /\ error_message' = exc[t]
    /\ pc' = [pc EXCEPT ![t] = "except_status"]
    /\ UNCHANGED <<qa_system, system_status, document_count, _initialized,
                   rest, constructCalls, calls, initLocals, handleLocals>>

\* ExceptStatus with the assignment of line 79 left out
ExceptStatus_NoWrite(t) ==
    /\ pc[t] = "except_status"
    /\ pc' = [pc EXCEPT ![t] = "except_flag"]
    /\ UNCHANGED <<appState, rest, constructCalls, calls, initLocals, handleLocals>>

\* line 79: self.system_status = "error"
ExceptStatus(t) ==
    /\ pc[t] = "except_status"
    /\ system_status' = "error"
    /\ pc' = [pc EXCEPT ![t] = "except_flag"]
    /\ UNCHANGED <<qa_system, error_message, document_count, _initialized,
                   rest, constructCalls, calls, initLocals, handleLocals>>

\* ExceptFlag marking the failed attempt as done (line 80 with True)
ExceptFlag_Permanent(t) ==
    /\ pc[t] = "except_flag"
    /\ _initialized' = TRUE
    /\ path' = [path EXCEPT ![t] = "fail"]
    /\ pc' = [pc EXCEPT ![t] = "init_done"]
    /\ UNCHANGED <<qa_system, system_status, error_message, document_count,
                   rest, constructCalls, calls, exc, entry, handleLocals>>

\* line 80: self._initialized = False, and the call returns
ExceptFlag(t) ==
    /\ pc[t] = "except_flag"
    /\ _initialized' = FALSE
    /\ path' = [path EXCEPT ![t] = "fail"]
    /\ pc' = [pc EXCEPT ![t] = "init_done"]
    /\ UNCHANGED <<qa_system, system_status, error_message, document_count,
                   rest, constructCalls, calls, exc, entry, handleLocals>>

\* the caller goes on after initialize_qa_system returned
InitReturn(t) ==
    /\ pc[t] = "init_done"
    /\ pc' = [pc EXCEPT ![t] = "idle"]
    /\ exc' = [exc EXCEPT ![t] = NoExc]
    /\ path' = [path EXCEPT ![t] = "none"]
    /\ entry' = [entry EXCEPT ![t] = NoEntry]
    /\ UNCHANGED <<appState, rest, constructCalls, calls, handleLocals>>

InitStep(t) ==
    \/ InitCheck(t)
    \/ InitEnv(t)
    \/ InitConstruct(t)
    \/ InitSetReady(t)
    \/ InitCount(t)
    \/ InitSetFlag(t)
    \/ ExceptMessage(t)
    \/ ExceptStatus(t)
    \/ ExceptFlag(t)
    \/ InitReturn(t)

\* ---------------------------------------------------------- handle_question

\* Render whose KeyError is not caught at line 216 and leaves handle_question
Render_Propagates(resp) ==
    IF resp # ResponseKeys THEN [kind |-> "raised", error |-> <<"KeyError">>]
    ELSE Rendered

\* line 203-207: response['is_inference'], extract_sections(response) reading
\* response['confidence'] and response['answer'], generate_html(response['sources']);
\* a missing key raises KeyError, whose str() is the quoted key (line 216-218)
Render(resp) ==
    IF "is_inference" \notin resp THEN ErrorPayload(<<"'is_inference'">>)
    ELSE IF "confidence" \notin resp THEN ErrorPayload(<<"'confidence'">>)
    ELSE IF "answer" \notin resp THEN ErrorPayload(<<"'answer'">>)
    ELSE IF "sources" \notin resp THEN ErrorPayload(<<"'sources'">>)
    ELSE Rendered

\* a request arrives at POST /respond
StartHandle(t) ==
    /\ pc[t] = "idle"
    /\ calls < MaxCalls
    /\ calls' = calls + 1
    /\ \E q \in Questions : question' = [question EXCEPT ![t] = q]
    /\ pc' = [pc EXCEPT ![t] = "handle_check_qa"]
    /\ UNCHANGED <<appState, rest, constructCalls, initLocals,
                   seen, payload, response, asked, result>>

\* line 195, left operand: not state.qa_system
HandleCheckQa(t) ==
    /\ pc[t] = "handle_check_qa"
    /\ IF qa_system = None
         THEN /\ pc' = [pc EXCEPT ![t] = "handle_fmt_status"]
              /\ seen' = [seen EXCEPT ![t] = "no qa_system"]
         ELSE /\ pc' = [pc EXCEPT ![t] = "handle_check_status"]
              /\ seen' = seen
    /\ UNCHANGED <<appState, rest, constructCalls, calls, initLocals,
                   question, payload, response, asked, result>>

\* HandleCheckStatus with the status test of line 195 left out
HandleCheckStatus_NoGate(t) ==
    /\ pc[t] = "handle_check_status"
    /\ seen' = [seen EXCEPT ![t] = system_status]
    /\ pc' = [pc EXCEPT ![t] = "handle_ask"]
    /\ UNCHANGED <<appState, rest, constructCalls, calls, initLocals,
                   question, payload, response, asked, result>>

\* line 195, right operand: state.system_status != "ready"
HandleCheckStatus(t) ==
    /\ pc[t] = "handle_check_status"
    /\ seen' = [seen EXCEPT ![t] = system_status]
    /\ IF system_status # "ready"
         THEN pc' = [pc EXCEPT ![t] = "handle_fmt_status"]
         ELSE pc' = [pc EXCEPT ![t] = "handle_ask"]
    /\ UNCHANGED <<appState, rest, constructCalls, calls, initLocals,
                   question, payload, response, asked, result>>

\* line 196: the f-string reads state.system_status ...
HandleFmtStatus(t) ==
    /\ pc[t] = "handle_fmt_status"
    /\ payload' = [payload EXCEPT ![t] = <<"System not ready. Status: ", system_status, ". ">>]
    /\ pc' = [pc EXCEPT ![t] = "handle_fmt_error"]
    /\ UNCHANGED <<appState, rest, constructCalls, calls, initLocals,
                   question, seen, response, asked, result>>

\* line 196: ... then state.error_message, and the payload is returned
HandleFmtError(t) ==
    /\ pc[t] = "handle_fmt_error"
    /\ result' = [result EXCEPT ![t] = ErrorPayload(Append(payload[t], error_message))]
    /\ pc' = [pc EXCEPT ![t] = "handle_done"]
    /\ UNCHANGED <<appState, rest, constructCalls, calls, initLocals,
                   question, seen, payload, response, asked>>

\* HandleAsk whose except branch also records the failure in the shared state
HandleAsk_MarksError(t) ==
    /\ pc[t] = "handle_ask"
    /\ asked' = [asked EXCEPT ![t] = Append(asked[t], <<qa_system, question[t]>>)]
    /\ \/ \E m \in BackendMsgs :
            /\ result' = [result EXCEPT ![t] = ErrorPayload(<<m>>)]
            /\ pc' = [pc EXCEPT ![t] = "handle_done"]
            /\ response' = response
            /\ system_status' = "error"
            /\ error_message' = m
       \/ \E r \in Responses :
            /\ response' = [response EXCEPT ![t] = r]
            /\ pc' = [pc EXCEPT ![t] = "handle_render"]
            /\ result' = result
            /\ UNCHANGED <<system_status, error_message>>
    /\ UNCHANGED <<qa_system, document_count, _initialized, rest,
                   constructCalls, calls, initLocals, question, seen, payload>>

\* HandleAsk that answers an empty question itself instead of asking the backend
HandleAsk_RejectsEmpty(t) ==
    /\ pc[t] = "handle_ask"
    /\ IF question[t] = ""
         THEN /\ result' = [result EXCEPT ![t] = ErrorPayload(<<"empty question">>)]
              /\ pc' = [pc EXCEPT ![t] = "handle_done"]
              /\ UNCHANGED <<asked, response>>
         ELSE /\ asked' = [asked EXCEPT ![t] = Append(asked[t], <<qa_system, question[t]>>)]
              /\ \/ \E m \in BackendMsgs :
                      /\ result' = [result EXCEPT ![t] = ErrorPayload(<<m>>)]
                      /\ pc' = [pc EXCEPT ![t] = "handle_done"]
                      /\ response' = response
                 \/ \E r \in Responses :
                      /\ response' = [response EXCEPT ![t] = r]
                      /\ pc' = [pc EXCEPT ![t] = "handle_render"]
                      /\ result' = result
    /\ UNCHANGED <<appState, rest, constructCalls, calls, initLocals,
                   question, seen, payload>>

\* line 199: response = state.qa_system.ask_question(question);
\* line 216-218 when it raises
HandleAsk(t) ==
    /\ pc[t] = "handle_ask"
    /\ asked' = [asked EXCEPT ![t] = Append(asked[t], <<qa_system, question[t]>>)]
    /\ \/ \E m \in BackendMsgs :
            /\ result' = [result EXCEPT ![t] = ErrorPayload(<<m>>)]
            /\ pc' = [pc EXCEPT ![t] = "handle_done"]
            /\ response' = response
       \/ \E r \in Responses :
            /\ response' = [response EXCEPT ![t] = r]
            /\ pc' = [pc EXCEPT ![t] = "handle_render"]
            /\ result' = result
    /\ UNCHANGED <<appState, rest, constructCalls, calls, initLocals,
                   question, seen, payload>>

\* line 203-214, and line 216-218 when a step raises
HandleRender(t) ==
    /\ pc[t] = "handle_render"
    /\ result' = [result EXCEPT ![t] = Render(response[t])]
    /\ pc' = [pc EXCEPT ![t] = "handle_done"]
    /\ UNCHANGED <<appState, rest, constructCalls, calls, initLocals,
                   question, seen, payload, response, asked>>

\* the response has been sent
HandleReturn(t) ==
    /\ pc[t] = "handle_done"
    /\ pc' = [pc EXCEPT ![t] = "idle"]
    /\ question' = [question EXCEPT ![t] = ""]
    /\ seen' = [seen EXCEPT ![t] = "none"]
    /\ payload' = [payload EXCEPT ![t] = <<>>]
    /\ response' = [response EXCEPT ![t] = {}]
    /\ asked' = [asked EXCEPT ![t] = <<>>]
    /\ result' = [result EXCEPT ![t] = NoResult]
    /\ UNCHANGED <<appState, rest, constructCalls, calls, initLocals>>

HandleStep(t) ==
    \/ HandleCheckQa(t)
    \/ HandleCheckStatus(t)
    \/ HandleFmtStatus(t)
    \/ HandleFmtError(t)
    \/ HandleAsk(t)
    \/ HandleRender(t)
    \/ HandleReturn(t)

\* ---------------------------------------------------------- extract_sections

\* Python strings are sequences of one-character strings
AnswerMarker == <<"A", "n", "s", "w", "e", "r", ":">>
SourcesMarker == <<"S", "o", "u", "r", "c", "e", "s", ":">>
ConfidenceMarker == <<"C", "o", "n", "f", "i", "d", "e", "n", "c", "e", ":">>
AssumptionsMarker == <<"A", "s", "s", "u", "m", "p", "t", "i", "o", "n", "s", " ",
                       "(", "i", "f", " ", "a", "n", "y", ")", ":">>
\* the characters str.strip() removes
Whitespace == {" ", "\t", "\n", "\r"}
\* what an answer text is put together from
Pieces == {AnswerMarker, SourcesMarker, ConfidenceMarker, AssumptionsMarker,
           <<" ">>, <<"x">>}
\* "Answer: 42 Sources: doc.pdf Confidence: high Assumptions (if any): none"
ExamplePieces ==
    << AnswerMarker, <<" ", "4", "2", " ">>,
       SourcesMarker, <<" ", "d", "o", "c", ".", "p", "d", "f", " ">>,
       ConfidenceMarker, <<" ", "h", "i", "g", "h", " ">>,
       AssumptionsMarker, <<" ", "n", "o", "n", "e">> >>

RECURSIVE Concat(_)
\* the string made of the pieces, in order
Concat(ps) == IF ps = <<>> THEN <<>> ELSE Head(ps) \o Concat(Tail(ps))

\* str.rfind in place of str.find: the offset of the last occurrence
Find_Last(str, sub) ==
    LET hits == {i \in 0..(Len(str) - Len(sub)) : SubSeq(str, i + 1, i + Len(sub)) = sub}
    IN  IF hits = {} THEN -1 ELSE CHOOSE i \in hits : \A j \in hits : j <= i

\* str.find(sub): the offset of the first occurrence, -1 when there is none
Find(str, sub) ==
    LET hits == {i \in 0..(Len(str) - Len(sub)) : SubSeq(str, i + 1, i + Len(sub)) = sub}
    IN  IF hits = {} THEN -1 ELSE CHOOSE i \in hits : \A j \in hits : i <= j

\* a slice that reads its bounds in either order
Slice_Swapped(str, i, j) ==
    LET n  == Len(str)
        lo == IF i < 0 THEN (IF i + n < 0 THEN 0 ELSE i + n) ELSE (IF i > n THEN n ELSE i)
        hi == IF j < 0 THEN (IF j + n < 0 THEN 0 ELSE j + n) ELSE (IF j > n THEN n ELSE j)
    IN  IF lo >= hi THEN SubSeq(str, hi + 1, lo) ELSE SubSeq(str, lo + 1, hi)

\* str[i:j]: negative bounds count from the end, bounds are clamped to the
\* string, and a slice whose start is not before its end is empty
Slice(str, i, j) ==
    LET n  == Len(str)
        lo == IF i < 0 THEN (IF i + n < 0 THEN 0 ELSE i + n) ELSE (IF i > n THEN n ELSE i)
        hi == IF j < 0 THEN (IF j + n < 0 THEN 0 ELSE j + n) ELSE (IF j > n THEN n ELSE j)
    IN  IF lo >= hi THEN <<>> ELSE SubSeq(str, lo + 1, hi)

RECURSIVE LStrip(_)
LStrip(str) ==
    IF str # <<>> /\ Head(str) \in Whitespace THEN LStrip(Tail(str)) ELSE str

RECURSIVE RStrip(_)
RStrip(str) ==
    IF str # <<>> /\ str[Len(str)] \in Whitespace
      THEN RStrip(SubSeq(str, 1, Len(str) - 1))
      ELSE str

\* str.strip()
Strip(str) == RStrip(LStrip(str))

\* line 116-121: the sections dict before the try block
EmptySections == [answer |-> <<>>, sources |-> <<>>, confidence |-> <<>>,
                  assumptions |-> <<>>]

\* the outcome of extract_sections: the exception that left it (raised), the
\* exception its except block caught (caught), and the sections it rendered
Outcome(resp, r, c, secs) ==
    [ran |-> TRUE, response |-> resp, raised |-> r, caught |-> c, sections |-> secs]

\* line 124-143: the try block on a str
SliceSections(answer_raw) ==
    LET answer_start == Find(answer_raw, AnswerMarker) + Len(AnswerMarker)
        sources_start == Find(answer_raw, SourcesMarker)
        confidence_start == Find(answer_raw, ConfidenceMarker)
        assumptions_start == Find(answer_raw, AssumptionsMarker)
    IN  [answer |->
            IF answer_start # -1 /\ sources_start # -1
              THEN Strip(Slice(answer_raw, answer_start, sources_start))
              ELSE <<>>,
         sources |->
            IF sources_start # -1 /\ confidence_start # -1
              THEN Strip(Slice(answer_raw, sources_start + Len(SourcesMarker),
                               confidence_start))
              ELSE <<>>,
         confidence |->
            IF confidence_start # -1 /\ assumptions_start # -1
              THEN Strip(Slice(answer_raw, confidence_start + Len(ConfidenceMarker),
                               assumptions_start))
              ELSE <<>>,
         assumptions |->
            IF assumptions_start # -1
              THEN Strip(Slice(answer_raw, assumptions_start + Len(AssumptionsMarker),
                               Len(answer_raw)))
              ELSE <<>>]

\* line 109-163. A response is [keys, is_str, answer]: the keys the dict has,
\* whether response['answer'] is a str, and its text. The reads of line 110-111
\* are outside the try block; a value that is not a str (None) has no find(),
\* which raises at line 126 and is caught at line 145.
extract_sections(resp) ==
    IF "confidence" \notin resp.keys
      THEN Outcome(resp, "'confidence'", NoExc, EmptySections)
    ELSE IF "answer" \notin resp.keys
      THEN Outcome(resp, "'answer'", NoExc, EmptySections)
    ELSE IF ~resp.is_str
      THEN Outcome(resp, NoExc, "object has no attribute 'find'", EmptySections)
    ELSE Outcome(resp, NoExc, NoExc, SliceSections(resp.answer))

\* the responses extract_sections is applied to, for an answer text
ResponsesWith(text) ==
    {[keys |-> ResponseKeys, is_str |-> TRUE, answer |-> text],
     [keys |-> ResponseKeys, is_str |-> FALSE, answer |-> <<>>],
     [keys |-> ResponseKeys \ {"answer"}, is_str |-> TRUE, answer |-> <<>>],
     [keys |-> ResponseKeys \ {"confidence"}, is_str |-> TRUE, answer |-> text]}

program == <<appState, openai_api_key, singletonVars, constructCalls, calls, pc,
             initLocals, handleLocals>>

\* the backend's answer grows by one piece
AppendPiece ==
    /\ extracted = NotRun
    /\ Len(pieces) < MaxPieces
    /\ \E p \in Pieces : pieces' = Append(pieces, p)
    /\ UNCHANGED <<program, extracted>>

\* the backend answers with the text of the documented example
LoadExample ==
    /\ extracted = NotRun
    /\ pieces = <<>>
    /\ pieces' = ExamplePieces
    /\ UNCHANGED <<program, extracted>>

\* line 206: answer_html = extract_sections(response)
ApplyExtract ==
    /\ extracted = NotRun
    /\ \E r \in ResponsesWith(Concat(pieces)) : extracted' = extract_sections(r)
    /\ UNCHANGED <<program, pieces>>

\* ------------------------------------------------------- AppState.__new__

\* the class before line 83: no instance, and no attribute set on one
NoAttr == "no attribute"
NoValue == -1

\* a caller evaluates AppState()
NewStart(t) ==
    /\ pc[t] = "idle"
    /\ news < MaxNews
    /\ news' = news + 1
    /\ pc' = [pc EXCEPT ![t] = "new_lock"]
    /\ UNCHANGED <<appState, openai_api_key, _instance, _lock, created, got,
                   extractVars, constructCalls, calls, initLocals, handleLocals>>

\* line 34: with cls._lock (entering waits until the lock is free)
NewAcquire(t) ==
    /\ pc[t] = "new_lock"
    /\ _lock = 0
    /\ _lock' = t
    /\ pc' = [pc EXCEPT ![t] = "new_body"]
    /\ UNCHANGED <<appState, openai_api_key, _instance, created, news, got,
                   extractVars, constructCalls, calls, initLocals, handleLocals>>

\* NewBody without the "if cls._instance is None" of line 35
NewBody_NoCheck(t) ==
    /\ pc[t] = "new_body"
    /\ _lock = t
    /\ created' = created + 1
    /\ _instance' = created'
    /\ qa_system' = None
    /\ system_status' = "initializing"
    /\ error_message' = ""
    /\ document_count' = 0
    /\ _initialized' = FALSE
    /\ _lock' = 0
    /\ pc' = [pc EXCEPT ![t] = "new_return"]
    /\ UNCHANGED <<openai_api_key, news, got, extractVars, constructCalls, calls,
                   initLocals, handleLocals>>

\* line 35-41, run while holding the lock, which the end of the with block
\* releases
NewBody(t) ==
    /\ pc[t] = "new_body"
    /\ _lock = t
    /\ IF _instance = None
         THEN /\ created' = created + 1
              /\ _instance' = created'
              /\ qa_system' = None
              /\ system_status' = "initializing"
              /\ error_message' = ""
              /\ document_count' = 0
              /\ _initialized' = FALSE
         ELSE UNCHANGED <<created, _instance, appState>>
    /\ _lock' = 0
    /\ pc' = [pc EXCEPT ![t] = "new_return"]
    /\ UNCHANGED <<openai_api_key, news, got, extractVars, constructCalls, calls,
                   initLocals, handleLocals>>

\* line 42: return cls._instance
NewReturn(t) ==
    /\ pc[t] = "new_return"
    /\ got' = [got EXCEPT ![t] = _instance]
    /\ pc' = [pc EXCEPT ![t] = "idle"]
    /\ UNCHANGED <<appState, openai_api_key, _instance, _lock, created, news,
                   extractVars, constructCalls, calls, initLocals, handleLocals>>

\* initialize_qa_system is called on an instance AppState() has returned
StartInitOn(t) ==
    /\ got[t] # None
    /\ StartInit(t)

\* ------------------------------------------------------------ specifications

\* callers on any number of threads, interleaved at every statement
Next ==
    \E t \in Threads :
        \/ StartInit(t)
        \/ InitStep(t)
        \/ StartHandle(t)
        \/ HandleStep(t)

Spec == Init /\ [][Next]_vars

\* initialize_qa_system is called by one caller at a time (startup_event);
\* requests are served on any thread meanwhile
SeqNext ==
    \E t \in Threads :
        \/ StartInitSeq(t)
        \/ InitStep(t)
        \/ StartHandle(t)
        \/ HandleStep(t)

SeqSpec == Init /\ [][SeqNext]_vars

\* a thread inside initialize_qa_system keeps running: the method has no loop
\* and waits for nothing but the calls it makes, which return or raise
FairSeqSpec == SeqSpec /\ \A t \in Threads : WF_vars(InitStep(t))

\* the process from before line 83: threads construct AppState() and call
\* initialize_qa_system on what they get
SingletonInit ==
    /\ _instance = None
    /\ _lock = 0
    /\ created = 0
    /\ news = 0
    /\ got = [t \in Threads |-> None]
    /\ qa_system = NoValue
    /\ system_status = NoAttr
    /\ error_message = NoAttr
    /\ document_count = NoValue
    /\ _initialized = FALSE
    /\ openai_api_key = "sk-key"
    /\ constructCalls = 0
    /\ calls = 0
    /\ pc = [t \in Threads |-> "idle"]
    /\ exc = [t \in Threads |-> NoExc]
    /\ path = [t \in Threads |-> "none"]
    /\ entry = [t \in Threads |-> NoEntry]
    /\ question = [t \in Threads |-> ""]
    /\ seen = [t \in Threads |-> "none"]
    /\ payload = [t \in Threads |-> <<>>]
    /\ response = [t \in Threads |-> {}]
    /\ asked = [t \in Threads |-> <<>>]
    /\ result = [t \in Threads |-> NoResult]
    /\ pieces = <<>>
    /\ extracted = NotRun

SingletonNext ==
    \E t \in Threads :
        \/ NewStart(t)
        \/ NewAcquire(t)
        \/ NewBody(t)
        \/ NewReturn(t)
        \/ StartInitOn(t)
        \/ InitStep(t)

SingletonSpec == SingletonInit /\ [][SingletonNext]_vars

\* extract_sections applied to the answers the backend can give
ExtractInit == Init /\ openai_api_key = "sk-key"

ExtractNext == AppendPiece \/ LoadExample \/ ApplyExtract

ExtractSpec == ExtractInit /\ [][ExtractNext]_vars

\* ------------------------------------------------------------------ claims

\* the fields of a Snapshot
SnapStatus(snap) == snap[2]

\* C1: however many callers run initialize_qa_system concurrently, the backend
\* constructor is invoked at most once in total, and a caller arriving while
\* another is mid-initialization never enters the construction logic (no two
\* callers are inside the try block at once).
C1_ConstructAtMostOnce ==
    /\ constructCalls <= 1
    /\ Cardinality({t \in Threads : pc[t] \in TryLabels}) <= 1

C3_HandleIffReady ==
    NoInitInFlight => ((qa_system # None) <=> (system_status = "ready"))

\* C4: whenever no initialize_qa_system call is in progress, error_message is
\* non-empty if and only if system_status is "error".
C4_ErrorIffFailed ==
    NoInitInFlight => ((error_message # "") <=> (system_status = "error"))

\* C5: a request whose readiness check did not read a non-null qa_system and
\* the status "ready" returns an error payload without invoking ask_question;
\* ask_question is only invoked after that check passed, on a non-null handle.
C5_ReadinessGating ==
    \A t \in Threads :
        /\ pc[t] = "handle_ask" => seen[t] = "ready"
        /\ asked[t] # <<>> => (seen[t] = "ready" /\ asked[t][1][1] # None)
        /\ pc[t] \in {"handle_fmt_status", "handle_fmt_error"} => asked[t] = <<>>
        /\ (pc[t] = "handle_done" /\ seen[t] # "ready")
             => (result[t].kind = "error" /\ asked[t] = <<>>)

\* a request found a backend handle but a status other than "ready", and
\* returned the error payload
C5_Witness ==
    \E t \in Threads :
        /\ pc[t] = "handle_done"
        /\ seen[t] \in {"initializing", "error"}
        /\ result[t].kind = "error"

\* C6: with OPENAI_API_KEY unset or empty, a call of initialize_qa_system ends
\* with status "error", a non-empty error_message, qa_system None, and the
\* backend constructor never invoked.
C6_MissingCredentialFails ==
    \A t \in Threads :
        (openai_api_key \in {Unset, ""} /\ pc[t] = "init_done")
            => (/\ system_status = "error"
                /\ error_message # ""
                /\ qa_system = None
                /\ constructCalls = 0)

\* a call made without the credential has returned
C6_Witness ==
    \E t \in Threads :
        /\ openai_api_key \in {Unset, ""}
        /\ pc[t] = "init_done"
        /\ path[t] = "fail"

\* C7: whichever step of initialize_qa_system raises, the call returns normally
\* through the except block, with status "error" and error_message equal to the
\* exception's message.
C7_FailureIsRecorded ==
    \A t \in Threads :
        /\ exc[t] # NoExc => pc[t] \in {"except_message", "except_status",
                                        "except_flag", "init_done"}
        /\ pc[t] = "init_done" =>
             /\ path[t] \in {"skip", "ok", "fail"}
             /\ exc[t] # NoExc =>
                  (path[t] = "fail" /\ system_status = "error" /\ error_message = exc[t])

\* a call whose document-count read raised (after status was set "ready") has
\* returned
C7_Witness ==
    \E t \in Threads :
        /\ pc[t] = "init_done"
        /\ exc[t] = MetadataMsg

\* C8: once system_status is "ready" no step changes it or reassigns qa_system.
C8_ReadyIsStable ==
    [][system_status = "ready"
         => (system_status' = "ready" /\ qa_system' = qa_system)]_vars

\* C9: a call entered after an earlier call completed with status "ready"
\* returns at line 48: no construction, and qa_system, system_status,
\* error_message, document_count and _initialized stay as at its entry.
C9_IdempotentAfterSuccess ==
    \A t \in Threads :
        (pc[t] \in InitLabels /\ SnapStatus(entry[t]) = "ready")
            => (/\ Snapshot = entry[t]
                /\ pc[t] \in {"init_check", "init_done"})

\* a second call, entered in the Ready state, has been skipped
C9_Witness ==
    \E t \in Threads :
        /\ pc[t] = "init_done"
        /\ SnapStatus(entry[t]) = "ready"
        /\ path[t] = "skip"

\* C10: no step of handle_question changes qa_system, system_status,
\* error_message, document_count or _initialized; and when ask_question raises,
\* the request ends with an error payload carrying the exception's message.
C10_HandleFrame ==
    [][\A t \in Threads :
          (pc'[t] # pc[t] /\ (pc[t] \in HandleLabels \/ pc'[t] \in HandleLabels))
             => (/\ UNCHANGED appState
                 /\ (pc[t] = "handle_ask" /\ pc'[t] = "handle_done")
                      => \E m \in BackendMsgs : result'[t] = ErrorPayload(<<m>>))]_vars

\* a request whose ask_question raised has returned its error payload, and the
\* status is still "ready"
C10_Witness ==
    \E t \in Threads :
        /\ pc[t] = "handle_done"
        /\ asked[t] # <<>>
        /\ response[t] = {}
        /\ result[t].kind = "error"
        /\ system_status = "ready"

\* C11: whatever the backend does (ask_question raising, or returning a
\* response without 'answer', 'confidence', 'is_inference' or 'sources'), a
\* finished handle_question has returned the rendered page or an error payload
\* {error: ...}; a missing field gives the payload of its KeyError.
C11_NoEscape ==
    \A t \in Threads :
        pc[t] = "handle_done" =>
            /\ result[t].kind \in {"error", "Main"}
            /\ (asked[t] # <<>> /\ response[t] = ResponseKeys) => result[t] = Rendered
            /\ (asked[t] # <<>> /\ response[t] # ResponseKeys) => result[t].kind = "error"

\* a request whose response lacked the 'answer' field has returned
C11_Witness ==
    \E t \in Threads :
        /\ pc[t] = "handle_done"
        /\ response[t] = ResponseKeys \ {"answer"}
        /\ result[t] = ErrorPayload(<<"'answer'">>)

\* ------------------------------------------- claims about extract_sections

\* sub occurs in str at offset i
OccursAt(str, sub, i) ==
    /\ i >= 0
    /\ i + Len(sub) <= Len(str)
    /\ SubSeq(str, i + 1, i + Len(sub)) = sub

Present(str, sub) == \E i \in 0..Len(str) : OccursAt(str, sub, i)

\* the offset of the first occurrence of a marker that is present
Pos(str, sub) ==
    CHOOSE i \in 0..Len(str) :
        OccursAt(str, sub, i) /\ \A j \in 0..(i - 1) : ~OccursAt(str, sub, j)

\* r is u without its leading and trailing whitespace
IsTrimOf(r, u) ==
    \E i \in 0..Len(u) : \E j \in i..Len(u) :
        /\ r = SubSeq(u, i + 1, j)
        /\ \A k \in 1..i : u[k] \in Whitespace
        /\ \A k \in (j + 1)..Len(u) : u[k] \in Whitespace
        /\ r # <<>> => (r[1] \notin Whitespace /\ r[Len(r)] \notin Whitespace)

\* extract_sections was applied to a response with every key and a str answer
ExtractedText ==
    /\ extracted.ran
    /\ extracted.response.keys = ResponseKeys
    /\ extracted.response.is_str

\* C12: for an answer text holding all four markers with their first occurrences
\* in canonical order, each section is the trimmed text between the end of its
\* marker and the start of the next marker's first occurrence, the last one
\* running to the end of the text; the documented example gives
\* 42 / doc.pdf / high / none.
C12_CanonicalSections ==
    ExtractedText =>
        LET text == extracted.response.answer
            secs == extracted.sections
        IN  /\ (/\ Present(text, AnswerMarker) /\ Present(text, SourcesMarker)
                /\ Present(text, ConfidenceMarker) /\ Present(text, AssumptionsMarker)
                /\ Pos(text, AnswerMarker) < Pos(text, SourcesMarker)
                /\ Pos(text, SourcesMarker) < Pos(text, ConfidenceMarker)
                /\ Pos(text, ConfidenceMarker) < Pos(text, AssumptionsMarker))
               => /\ extracted.raised = NoExc
                  /\ extracted.caught = NoExc
                  /\ IsTrimOf(secs.answer,
                              SubSeq(text, Pos(text, AnswerMarker) + Len(AnswerMarker) + 1,
                                     Pos(text, SourcesMarker)))
                  /\ IsTrimOf(secs.sources,
                              SubSeq(text, Pos(text, SourcesMarker) + Len(SourcesMarker) + 1,
                                     Pos(text, ConfidenceMarker)))
                  /\ IsTrimOf(secs.confidence,
                              SubSeq(text, Pos(text, ConfidenceMarker) + Len(ConfidenceMarker) + 1,
                                     Pos(text, AssumptionsMarker)))
                  /\ IsTrimOf(secs.assumptions,
                              SubSeq(text, Pos(text, AssumptionsMarker) + Len(AssumptionsMarker) + 1,
                                     Len(text)))
            /\ text = Concat(ExamplePieces)
               => secs = [answer |-> <<"4", "2">>,
                          sources |-> <<"d", "o", "c", ".", "p", "d", "f">>,
                          confidence |-> <<"h", "i", "g", "h">>,
                          assumptions |-> <<"n", "o", "n", "e">>]

\* the documented example has been extracted
C12_Witness ==
    /\ ExtractedText
    /\ pieces = ExamplePieces
    /\ extracted.sections.answer = <<"4", "2">>
    /\ extracted.sections.assumptions = <<"n", "o", "n", "e">>

\* C13: when a marker is absent from the answer text, the section it opens and
\* the section it closes are both empty, and extract_sections does not raise.
C13_AbsentMarkerEmpty ==
    ExtractedText =>
        LET text == extracted.response.answer
            secs == extracted.sections
        IN  /\ extracted.raised = NoExc
            /\ ~Present(text, AnswerMarker) => secs.answer = <<>>
            /\ ~Present(text, SourcesMarker) => (secs.answer = <<>> /\ secs.sources = <<>>)
            /\ ~Present(text, ConfidenceMarker)
                 => (secs.sources = <<>> /\ secs.confidence = <<>>)
            /\ ~Present(text, AssumptionsMarker)
                 => (secs.confidence = <<>> /\ secs.assumptions = <<>>)

\* C14: extract_sections never lets an exception out, and when its except block
\* caught one, all four sections are empty.
C14_FailSoft ==
    extracted.ran =>
        /\ extracted.raised = NoExc
        /\ extracted.caught # NoExc => extracted.sections = EmptySections

\* C20: when both markers bounding a section are present and the closing
\* marker's first occurrence lies before the end of the opening marker's first
\* occurrence, the section is empty and nothing is raised, whether or not the
\* closing marker occurs again later.
C20_OutOfOrderEmpty ==
    ExtractedText =>
        LET text == extracted.response.answer
            secs == extracted.sections
            Reversed(open, close) ==
                /\ Present(text, open)
                /\ Present(text, close)
                /\ Pos(text, close) < Pos(text, open) + Len(open)
        IN  /\ extracted.raised = NoExc
            /\ extracted.caught = NoExc
            /\ Reversed(AnswerMarker, SourcesMarker) => secs.answer = <<>>
            /\ Reversed(SourcesMarker, ConfidenceMarker) => secs.sources = <<>>
            /\ Reversed(ConfidenceMarker, AssumptionsMarker) => secs.confidence = <<>>

\* 'Confidence:' comes before 'Sources:' and once more after it, with text in
\* between, and the sources section came out empty
C20_Witness ==
    /\ ExtractedText
    /\ pieces = <<ConfidenceMarker, SourcesMarker, <<"x">>, ConfidenceMarker>>
    /\ extracted.sections.sources = <<>>

\* ------------------------------------------------ claims about the AppState

\* C15: in every reachable state, under any interleaving of
\* initialize_qa_system calls, document_count is 0 unless system_status is
\* "ready".
C15_CountZeroUnlessReady ==
    system_status # "ready" => document_count = 0

\* C17: a request that found the state Ready has invoked ask_question exactly
\* once, on the backend handle, with the question string it was given (the
\* empty string included); before line 199 it has not invoked it.
C17_AskOnceUnchanged ==
    \A t \in Threads :
        /\ pc[t] = "handle_ask" => asked[t] = <<>>
        /\ (pc[t] \in {"handle_render", "handle_done"} /\ seen[t] = "ready")
             => (/\ Len(asked[t]) = 1
                 /\ asked[t][1][1] # None
                 /\ asked[t][1][2] = question[t])

\* a request with the empty question has passed it to ask_question
C17_Witness ==
    \E t \in Threads :
        /\ pc[t] = "handle_done"
        /\ seen[t] = "ready"
        /\ question[t] = ""
        /\ Len(asked[t]) = 1
        /\ asked[t][1][2] = ""

\* C18: the not-ready payload never reads "System not ready. Status: ready",
\* and when the readiness check read a status, the payload carries that status.
C18_ConsistentSnapshot ==
    \A t \in Threads :
        (pc[t] = "handle_done" /\ seen[t] # "ready")
            => (/\ result[t].error[2] # "ready"
                /\ seen[t] # "no qa_system" => result[t].error[2] = seen[t])

\* C16: a call of initialize_qa_system that has been entered returns; when a
\* call has returned, system_status is "ready" or "error", never
\* "initializing"; and the status never goes back to "initializing", so it
\* enters {"ready", "error"} once.
C16_InitSettles ==
    /\ \A t \in Threads : (pc[t] = "init_check") ~> (pc[t] = "init_done")
    /\ [](\A t \in Threads :
            pc[t] = "init_done" => system_status \in {"ready", "error"})
    /\ [][system_status # "initializing" => system_status' # "initializing"]_vars

\* the first call, entered in the initial state, has returned after running
\* the try block
C16_Witness ==
    \E t \in Threads :
        /\ pc[t] = "init_done"
        /\ SnapStatus(entry[t]) = "initializing"
        /\ path[t] \in {"ok", "fail"}

\* C19: every AppState() returns the one instance, which is created once; an
\* AppState() evaluated when the instance exists changes none of qa_system,
\* system_status, error_message, document_count, _initialized, and the class
\* keeps its instance.
C19_Singleton ==
    /\ [](/\ created <= 1
          /\ \A t \in Threads : got[t] # None => (got[t] = _instance /\ got[t] = 1))
    /\ [][\A t \in Threads :
            (pc[t] = "new_body" /\ pc'[t] = "new_return" /\ _instance # None)
               => UNCHANGED <<appState, _instance, created>>]_vars
    /\ [][_instance # None => _instance' = _instance]_vars

\* a second AppState() has gone through __new__ after initialize_qa_system
\* changed the fields of the first
C19_Witness ==
    \E t \in Threads :
        /\ pc[t] = "new_return"
        /\ news = 2
        /\ created = 1
        /\ system_status \in {"ready", "error"}

====
